---- MODULE Spec2Model ----
(***************************************************************************)
(* A model of the TasksTable component (src/src/components/tasks-table.tsx)*)
(* of the BlckBx task operations dashboard: the local task list, the       *)
(* filter pipeline, pagination, the selection set, the delete confirmation *)
(* prompt, the in-flight marker `updating`, and the asynchronous update /  *)
(* delete requests that travel to the record store and back.               *)
(*                                                                         *)
(* Every user event handler is one action.  React runs the filter effect   *)
(* (lines 187-243) synchronously after the render that follows any change  *)
(* of one of its dependencies, before the next event is handled, so the    *)
(* effect is part of every action that changes `tasks` or a filter axis.   *)
(* An async handler is split at its `await`: the part before it is the     *)
(* click action, the part after it is the response action, which runs with *)
(* the values its closure captured at the click.                           *)
(***************************************************************************)
EXTENDS Integers, Sequences, FiniteSets, TLC

(***************************************************************************)
(* Bounds of the model.                                                    *)
(***************************************************************************)
\* Number of records the store holds when the page loads.
NumTasks == 3
\* Number of mutation requests issued in one behaviour.
MaxRequests == 2
\* Page size.  The source sets 20 (tasks-table.tsx:85); the model scales it
\* down so that a list of NumTasks records spans more than one page.
ITEMS_PER_PAGE == 2
\* Number of clock advances in one behaviour.
MaxTicks == 1

(***************************************************************************)
(* Strings.  Text is a TLA+ string; ids are the strings of IdOf.           *)
(***************************************************************************)
UpperChars == "ABCDEFGHIJKLMNOPQRSTUVWXYZ"
LowerChars == "abcdefghijklmnopqrstuvwxyz"

CharAt(s, i) == SubSeq(s, i, i)

LowerChar(c) ==
  IF \E i \in 1..Len(UpperChars) : CharAt(UpperChars, i) = c
    THEN CharAt(LowerChars, CHOOSE i \in 1..Len(UpperChars) : CharAt(UpperChars, i) = c)
    ELSE c

RECURSIVE toLowerCase(_)
toLowerCase(s) ==
  IF Len(s) = 0 THEN ""
  ELSE LowerChar(CharAt(s, 1)) \o toLowerCase(SubSeq(s, 2, Len(s)))

RECURSIVE trimStart(_)
trimStart(s) ==
  IF Len(s) > 0 /\ CharAt(s, 1) = " " THEN trimStart(SubSeq(s, 2, Len(s))) ELSE s

RECURSIVE trimEnd(_)
trimEnd(s) ==
  IF Len(s) > 0 /\ CharAt(s, Len(s)) = " " THEN trimEnd(SubSeq(s, 1, Len(s) - 1)) ELSE s

trim(s) == trimEnd(trimStart(s))

\* String.prototype.includes: q occurs in text as a contiguous substring.
includes(text, q) ==
  \E i \in 1..(Len(text) - Len(q) + 1) : SubSeq(text, i, i + Len(q) - 1) = q

(***************************************************************************)
(* Time.  A timestamp is a number of hours since 1 January 00:00 of a      *)
(* non-leap year; an optional Date is <<>> (undefined) or <<t>>.           *)
(***************************************************************************)
DaysInMonth == <<31, 28, 31, 30, 31, 30, 31, 31, 30, 31, 30, 31>>

RECURSIVE MonthStartDay(_)
MonthStartDay(m) == IF m = 1 THEN 0 ELSE MonthStartDay(m - 1) + DaysInMonth[m - 1]

dayOfYear(t) == t \div 24
monthOf(t) ==
  CHOOSE m \in 1..12 :
    /\ MonthStartDay(m) <= dayOfYear(t)
    /\ dayOfYear(t) < MonthStartDay(m) + DaysInMonth[m]
dayOfMonth(t) == dayOfYear(t) - MonthStartDay(monthOf(t)) + 1

\* now.setHours(0, 0, 0, 0)
startOfDay(t) == t - (t % 24)
subDays(t, n) == t - n * 24
startOfMonth(t) == MonthStartDay(monthOf(t)) * 24
\* The last instant of the month: its last hour at this granularity.
endOfMonth(t) == (MonthStartDay(monthOf(t)) + DaysInMonth[monthOf(t)]) * 24 - 1
\* date-fns subMonths(t, 1): the same day of the previous month, clamped to
\* that month's length, the time of day kept.
subMonths(t, n) ==
  LET m == monthOf(t) - n
      d == IF dayOfMonth(t) > DaysInMonth[m] THEN DaysInMonth[m] ELSE dayOfMonth(t)
  IN (MonthStartDay(m) + d - 1) * 24 + (t % 24)

DatePresets == {"all", "today", "7days", "30days", "thisMonth", "lastMonth", "custom"}

getDateRangeFromPreset(preset, clock) ==
  CASE preset = "today"     -> [from |-> <<startOfDay(clock)>>, to |-> <<clock>>]
    [] preset = "7days"     -> [from |-> <<subDays(clock, 7)>>, to |-> <<clock>>]
    [] preset = "30days"    -> [from |-> <<subDays(clock, 30)>>, to |-> <<clock>>]
    [] preset = "thisMonth" -> [from |-> <<startOfMonth(clock)>>, to |-> <<endOfMonth(clock)>>]
    [] preset = "lastMonth" ->
         [from |-> <<startOfMonth(subMonths(clock, 1))>>,
          to   |-> <<endOfMonth(subMonths(clock, 1))>>]
    [] OTHER                -> [from |-> <<>>, to |-> <<>>]

(***************************************************************************)
(* The records of the store.  A record carries the fields of the Task      *)
(* interface that the component reads.                                     *)
(***************************************************************************)
IdOf == <<"t1", "t2", "t3", "t4", "t5", "t6">>
Ids == {IdOf[i] : i \in 1..NumTasks}
Fields == {"boh", "foh"}

TaskNameOf(i) ==
  CASE i = 1 -> "Book a plumber"
    [] i = 2 -> "Research Hotel options"
    [] i = 3 -> "Pay invoice"
    [] OTHER -> "Book hotel"

TaskDescriptionOf(i) ==
  CASE i = 1 -> "Boiler leak"
    [] i = 2 -> ""
    [] i = 3 -> "hotel deposit"
    [] OTHER -> "Misc"

AssistantOf(i) == IF i % 2 = 1 THEN "Alice" ELSE "Bob"
ClientOf(i) == IF i <= 2 THEN "Acme" ELSE "Zen"

\* The clock when the page loads: 10 March, 09:00.
InitialClock == 68 * 24 + 9

\* t1: 10 March 10:00 (an hour after the page loads), t2: 5 March 12:00,
\* t3: 20 February 10:00, later ones: mid January.
CreatedAtOf(i) ==
  CASE i = 1 -> 68 * 24 + 10
    [] i = 2 -> 63 * 24 + 12
    [] i = 3 -> 50 * 24 + 10
    [] OTHER -> (20 - i) * 24

Row(i, boh, foh) ==
  [id |-> IdOf[i], task_name |-> TaskNameOf(i), task_description |-> TaskDescriptionOf(i),
   client |-> ClientOf(i), assistant |-> AssistantOf(i),
   boh |-> boh, foh |-> foh, created_at |-> CreatedAtOf(i)]

FlagPairs == <<<<FALSE, FALSE>>, <<TRUE, FALSE>>, <<FALSE, TRUE>>, <<TRUE, TRUE>>>>

\* The table with record i carrying flag pair number ((i - 1 + k) mod 4) + 1.
Dataset(k) ==
  {Row(i, FlagPairs[((i - 1 + k) % 4) + 1][1], FlagPairs[((i - 1 + k) % 4) + 1][2]) :
     i \in 1..NumTasks}

(***************************************************************************)
(* Sequence helpers: Array.prototype.filter / map / slice / every.         *)
(***************************************************************************)
Range(s) == {s[i] : i \in 1..Len(s)}
IdsOf(ts) == {ts[i].id : i \in 1..Len(ts)}

\* JavaScript's slice(start, end) with 0-based start and exclusive end.
slice(s, start, end) == SubSeq(s, start + 1, end)

Min(a, b) == IF a < b THEN a ELSE b
Max(a, b) == IF a > b THEN a ELSE b

\* Math.ceil(n / d) for n >= 0, d > 0.
Ceil(n, d) == (n + d - 1) \div d

\* The rows of a table ordered by created_at, newest first
\* (.order("created_at", { ascending: false })).
RECURSIVE OrderByCreatedAtDesc(_)
OrderByCreatedAtDesc(rows) ==
  IF rows = {} THEN <<>>
  ELSE LET newest == CHOOSE r \in rows : \A q \in rows : q.created_at <= r.created_at
       IN <<newest>> \o OrderByCreatedAtDesc(rows \ {newest})

\* [...new Set(values.filter(Boolean))]: first occurrences, empty strings dropped.
RECURSIVE Unique(_)
Unique(s) ==
  IF Len(s) = 0 THEN <<>>
  ELSE LET init == Unique(SubSeq(s, 1, Len(s) - 1))
           last == s[Len(s)]
       IN IF last = "" \/ last \in Range(init) THEN init ELSE Append(init, last)

(***************************************************************************)
(* The filter pipeline of the filter effect (lines 187-241).               *)
(***************************************************************************)
StatusFilters == {"all", "boh", "foh", "both", "none"}
\* What the model types into the search box: nothing, blanks, a word.
SearchQueries == {"", "  ", "Hotel"}

\* toLowerCase tabulated over the texts of the model, so that it is computed
\* once per text and not once per state.
Texts == {TaskNameOf(i) : i \in 1..NumTasks} \cup {TaskDescriptionOf(i) : i \in 1..NumTasks}
           \cup SearchQueries
LowerCaseTable == [s \in Texts |-> toLowerCase(s)]
LowerCase(s) == LowerCaseTable[s]
StatFilters == {"all", "boh", "foh", "unclassified"}
NoDateRange == [from |-> <<>>, to |-> <<>>]

SearchStage(result, query) ==
  IF trim(query) # ""
    THEN LET q == LowerCase(query)
         IN SelectSeq(result, LAMBDA t :
              \/ includes(LowerCase(t.task_name), q)
              \/ includes(LowerCase(t.task_description), q))
    ELSE result

AssistantStage(result, assistant) ==
  IF assistant # "all" THEN SelectSeq(result, LAMBDA t : t.assistant = assistant)
  ELSE result

ClientStage(result, client) ==
  IF client # "all" THEN SelectSeq(result, LAMBDA t : t.client = client)
  ELSE result

BohFohStage(result, status) ==
  CASE status = "boh"  -> SelectSeq(result, LAMBDA t : t.boh = TRUE)
    [] status = "foh"  -> SelectSeq(result, LAMBDA t : t.foh = TRUE)
    [] status = "both" -> SelectSeq(result, LAMBDA t : t.boh = TRUE /\ t.foh = TRUE)
    [] status = "none" -> SelectSeq(result, LAMBDA t : t.boh = FALSE /\ t.foh = FALSE)
    [] OTHER           -> result

DateStage(result, preset, range, clock) ==
  LET effectiveDateRange == IF preset = "custom" THEN range
                            ELSE getDateRangeFromPreset(preset, clock)
  IN IF effectiveDateRange.from # <<>>
       THEN LET from == effectiveDateRange.from[1]
                to   == IF effectiveDateRange.to # <<>> THEN effectiveDateRange.to[1]
                        ELSE clock
            IN SelectSeq(result, LAMBDA t : t.created_at >= from /\ t.created_at <= to)
       ELSE result

StatStage(result, stat) ==
  CASE stat = "boh"          -> SelectSeq(result, LAMBDA t : t.boh = TRUE)
    [] stat = "foh"          -> SelectSeq(result, LAMBDA t : t.foh = TRUE)
    [] stat = "unclassified" -> SelectSeq(result, LAMBDA t : t.boh = FALSE /\ t.foh = FALSE)
    [] OTHER                 -> result

\* Faulty variant of ApplyFilters: an active stat tile replaces the status
\* filter instead of being applied after it.
ApplyFilters_StatReplacesStatus(ts, query, assistant, client, status, preset, range, stat, clock) ==
  StatStage(
    DateStage(
      BohFohStage(
        ClientStage(AssistantStage(SearchStage(ts, query), assistant), client),
        IF stat # "all" THEN "all" ELSE status),
      preset, range, clock),
    stat)

ApplyFilters(ts, query, assistant, client, status, preset, range, stat, clock) ==
  StatStage(
    DateStage(
      BohFohStage(
        ClientStage(
          AssistantStage(
            SearchStage(ts, query),
            assistant),
          client),
        status),
      preset, range, clock),
    stat)

(***************************************************************************)
(* The classification suggestion (lines 44-80) and the suggestion map      *)
(* (lines 132-145).                                                        *)
(***************************************************************************)
FOH_KEYWORDS ==
  {"plumber", "electrician", "tradesman", "handyman", "cleaner", "gardener",
   "book", "booking", "reserve", "reservation",
   "appointment", "availability",
   "confirm", "chase", "follow up", "follow-up"}

BOH_KEYWORDS ==
  {"research", "investigate", "explore", "compare", "review", "enquiry", "inquiry", "quote",
   "quotes", "itinerary", "accommodation", "hotel", "flight", "flights", "trip", "travel",
   "birthday planning", "wedding planning", "party planning", "gift ideas", "present ideas",
   "insurance", "application", "registration", "contract", "renewal",
   "property", "house", "renovation"}

\* The value null of a suggestion.
NoSuggestion == "null"

checkCategorySuggestion(taskName, taskDescription) ==
  LET text == toLowerCase(taskName \o " " \o taskDescription)
      hasFohKeyword == \E keyword \in FOH_KEYWORDS : includes(text, toLowerCase(keyword))
      hasBohKeyword == \E keyword \in BOH_KEYWORDS : includes(text, toLowerCase(keyword))
  IN IF hasFohKeyword THEN "foh"
     ELSE IF hasBohKeyword THEN "boh"
     ELSE NoSuggestion

\* checkCategorySuggestion tabulated over the texts of the model's records.
SuggestionTable ==
  [p \in {<<TaskNameOf(i), TaskDescriptionOf(i)>> : i \in 1..NumTasks} |->
     checkCategorySuggestion(p[1], p[2])]
SuggestionFor(t) == SuggestionTable[<<t.task_name, t.task_description>>]

\* Faulty variant of SuggestionMap: the tests !task.boh and !task.foh left out.
SuggestionMap_Unguarded(ts) ==
  [id \in {t.id : t \in {u \in Range(ts) : SuggestionFor(u) # NoSuggestion}} |->
     SuggestionFor(CHOOSE t \in Range(ts) : t.id = id)]

\* The Map the useMemo builds: an entry for a record whose suggestion names
\* a flag the record does not carry, no entry for any other record.
SuggestionMap(ts) ==
  [id \in {t.id : t \in {u \in Range(ts) :
                           \/ SuggestionFor(u) = "boh" /\ ~u.boh
                           \/ SuggestionFor(u) = "foh" /\ ~u.foh}} |->
     SuggestionFor(CHOOSE t \in Range(ts) : t.id = id)]

(***************************************************************************)
(* State.                                                                  *)
(***************************************************************************)
VARIABLES
  loading,            \* useState(true), line 90
  tasks,              \* the local copy of the records, line 88
  filteredTasks,      \* line 89
  updating,           \* the in-flight marker: Null, a task id or "bulk", line 91
  assistantFilter, clientFilter, bohFohFilter, searchQuery, statFilter,  \* 94-98
  currentPage,        \* line 101
  datePreset, dateRange,                                                \* 104-105
  selectedTasks,      \* line 108
  showDeleteConfirm,  \* line 109
  assistants, clients,                                                  \* 112-113
  store,              \* the rows of the remote "tasks" table
  net,                \* the mutation requests that have not returned yet
  issued,             \* number of mutation requests issued so far
  failed,             \* history: some request (the fetch or a mutation) has failed
  now,                \* the wall clock, read by new Date()
  effectClock,        \* history: the clock the last run of the filter effect read
  lastEvent           \* history: the handler that ran last, the request it served
                      \* and the page shown when it ran

filterVars == <<assistantFilter, clientFilter, bohFohFilter, searchQuery, statFilter,
                datePreset, dateRange>>
viewVars == <<filteredTasks, currentPage, effectClock>>
optionVars == <<assistants, clients>>
netVars == <<store, net, issued, failed>>
vars == <<loading, tasks, filteredTasks, updating, filterVars, currentPage,
          selectedTasks, showDeleteConfirm, optionVars, netVars, now, effectClock,
          lastEvent>>

\* The value null of `updating`.
Null == "null"

\* A request as its async handler holds it: what was asked, the values the
\* handler's closure captured at the click (`ids` is the closure's
\* selectedTasks), and how far the request got: "sent" (on its way to the
\* store), "ok" or "error" (the store's answer on its way back).
NoMsg == [rid |-> 0, kind |-> "none", taskId |-> "", field |-> "", value |-> FALSE,
          ids |-> {}, phase |-> "none"]
Request(kind, taskId, field, value, ids) ==
  [rid |-> issued + 1, kind |-> kind, taskId |-> taskId, field |-> field, value |-> value,
   ids |-> ids, phase |-> "sent"]
\* What lastEvent records: the handler, the request it served and the page
\* that was shown when it ran.
Event(op, msg) == [op |-> op, msg |-> msg, page |-> currentPage]
UserEvent(op) == Event(op, NoMsg)

(***************************************************************************)
(* Derived values of a render (lines 372-376).                             *)
(***************************************************************************)
totalPages == Ceil(Len(filteredTasks), ITEMS_PER_PAGE)
startIndex == (currentPage - 1) * ITEMS_PER_PAGE
endIndex == Min(startIndex + ITEMS_PER_PAGE, Len(filteredTasks))
paginatedTasks == slice(filteredTasks, startIndex, endIndex)
currentPageIds == IdsOf(paginatedTasks)

\* The row of task `id` is rendered, with the record it shows.
Rendered(id) == ~loading /\ id \in currentPageIds
ShownTask(id) == CHOOSE t \in Range(paginatedTasks) : t.id = id

\* The suggestion map of a render (useMemo over tasks, line 145).
categorySuggestions == SuggestionMap(tasks)

\* The bulk action bar is rendered (line 775).
BulkBarShown == ~loading /\ selectedTasks # {}

(***************************************************************************)
(* The filter effect (lines 187-243), run after a render in which one of   *)
(* its dependencies changed: it reads the new state.                       *)
(***************************************************************************)
\* Faulty variant of RunFilterEffect: setCurrentPage(1) (line 242) left out.
RunFilterEffect_KeepsPage ==
  /\ filteredTasks' = ApplyFilters(tasks', searchQuery', assistantFilter', clientFilter',
                                   bohFohFilter', datePreset', dateRange', statFilter', now')
  /\ currentPage' = currentPage
  /\ effectClock' = now'

RunFilterEffect ==
  /\ filteredTasks' = ApplyFilters(tasks', searchQuery', assistantFilter', clientFilter',
                                   bohFohFilter', datePreset', dateRange', statFilter', now')
  /\ currentPage' = 1
  /\ effectClock' = now'

(***************************************************************************)
(* Initial state: the component has mounted, the filter effect has run on  *)
(* the empty list and fetchTasks has sent its query (lines 245-247).       *)
(***************************************************************************)
InitUI ==
  /\ loading = TRUE
  /\ tasks = <<>>
  /\ filteredTasks = <<>>
  /\ updating = Null
  /\ assistantFilter = "all" /\ clientFilter = "all" /\ bohFohFilter = "all"
  /\ searchQuery = "" /\ statFilter = "all"
  /\ currentPage = 1
  /\ datePreset = "all" /\ dateRange = NoDateRange
  /\ selectedTasks = {}
  /\ showDeleteConfirm = FALSE
  /\ assistants = <<>> /\ clients = <<>>
  /\ net = {} /\ issued = 0 /\ failed = FALSE
  /\ now = InitialClock
  /\ effectClock = InitialClock
  /\ lastEvent = UserEvent("mount")

Init == InitUI /\ store = Dataset(0)

(***************************************************************************)
(* fetchTasks after its await (lines 154-163).                             *)
(***************************************************************************)
FetchTasksOk ==
  /\ loading
  /\ LET data == OrderByCreatedAtDesc(store)
     IN /\ tasks' = data
        /\ assistants' = Unique([i \in 1..Len(data) |-> data[i].assistant])
        /\ clients' = Unique([i \in 1..Len(data) |-> data[i].client])
  /\ loading' = FALSE
  /\ lastEvent' = UserEvent("fetchOk")
  /\ UNCHANGED <<updating, filterVars, selectedTasks, showDeleteConfirm, netVars, now>>
  /\ RunFilterEffect

FetchTasksError ==
  /\ loading
  /\ loading' = FALSE
  /\ failed' = TRUE
  /\ lastEvent' = UserEvent("fetchError")
  /\ UNCHANGED <<tasks, viewVars, updating, filterVars, selectedTasks, showDeleteConfirm,
                 optionVars, store, net, issued, now>>

(***************************************************************************)
(* The local patches of the success branches.                              *)
(***************************************************************************)
SetField(t, field, value) == [t EXCEPT ![field] = value]

\* prev.map(task => task.id === taskId ? {...task, [field]: value} : task), 263-267
PatchTask(prev, taskId, field, value) ==
  [i \in 1..Len(prev) |->
     IF prev[i].id = taskId THEN SetField(prev[i], field, value) ELSE prev[i]]

\* Faulty variant of PatchSelected: patches every record.
PatchSelected_All(prev, selected, field, value) ==
  [i \in 1..Len(prev) |-> SetField(prev[i], field, value)]

\* prev.map(task => selectedTasks.has(task.id) ? {...task, [field]: value} : task), 286-290
PatchSelected(prev, selected, field, value) ==
  [i \in 1..Len(prev) |->
     IF prev[i].id \in selected THEN SetField(prev[i], field, value) ELSE prev[i]]

\* Faulty variant of RemoveSelected: the predicate inverted.
RemoveSelected_Inverted(prev, selected) == SelectSeq(prev, LAMBDA t : t.id \in selected)

\* prev.filter(task => !selectedTasks.has(task.id)), line 310
RemoveSelected(prev, selected) == SelectSeq(prev, LAMBDA t : t.id \notin selected)

(***************************************************************************)
(* updateTaskField (lines 249-270), called by a row's BOH or FOH switch    *)
(* (lines 662-689) with the negation of the flag the row shows.            *)
(***************************************************************************)
SwitchDisabled(id) == updating = id \/ updating = "bulk"

UpdateTaskFieldCall(taskId, field) ==
  /\ Rendered(taskId)
  /\ ~SwitchDisabled(taskId)
  /\ issued < MaxRequests
  /\ LET req == Request("update", taskId, field, ~ShownTask(taskId)[field], {})
     IN /\ net' = net \cup {req}
        /\ lastEvent' = Event("updateTaskField", req)
  /\ issued' = issued + 1
  /\ updating' = taskId
  /\ UNCHANGED <<loading, tasks, viewVars, filterVars, selectedTasks, showDeleteConfirm,
                 optionVars, store, failed, now>>

\* Faulty variant of UpdateTaskFieldReturn: the filter effect does not run
\* after the patch (`tasks` missing from the effect's dependencies).
UpdateTaskFieldReturn_StaleView(m) ==
  /\ m \in net /\ m.kind = "update" /\ m.phase \in {"ok", "error"}
  /\ net' = net \ {m}
  /\ lastEvent' = Event("updateTaskFieldReturn", m)
  /\ updating' = Null
  /\ UNCHANGED <<loading, filterVars, selectedTasks, showDeleteConfirm, optionVars,
                 store, issued, failed, now, viewVars>>
  /\ IF m.phase = "error"
       THEN UNCHANGED tasks
       ELSE tasks' = PatchTask(tasks, m.taskId, m.field, m.value)

UpdateTaskFieldReturn(m) ==
  /\ m \in net /\ m.kind = "update" /\ m.phase \in {"ok", "error"}
  /\ net' = net \ {m}
  /\ lastEvent' = Event("updateTaskFieldReturn", m)
  /\ updating' = Null
  /\ UNCHANGED <<loading, filterVars, selectedTasks, showDeleteConfirm, optionVars,
                 store, issued, failed, now>>
  /\ IF m.phase = "error"
       THEN UNCHANGED <<tasks, viewVars>>
       ELSE /\ tasks' = PatchTask(tasks, m.taskId, m.field, m.value)
            /\ RunFilterEffect

(***************************************************************************)
(* bulkUpdateField (lines 273-294), called by Mark as BOH / Mark as FOH    *)
(* (lines 781-796) with value true.                                        *)
(***************************************************************************)
BulkButtonDisabled == updating = "bulk"

\* Faulty variant of BulkUpdateFieldCall: the request carries the selected
\* ids of the rows on the current page only.
BulkUpdateFieldCall_VisibleOnly(field) ==
  /\ BulkBarShown
  /\ ~BulkButtonDisabled
  /\ issued < MaxRequests
  /\ selectedTasks # {}
  /\ LET req == Request("bulkUpdate", "", field, TRUE, selectedTasks \cap currentPageIds)
     IN /\ net' = net \cup {req}
        /\ lastEvent' = Event("bulkUpdateField", req)
  /\ issued' = issued + 1
  /\ updating' = "bulk"
  /\ UNCHANGED <<loading, tasks, viewVars, filterVars, selectedTasks, showDeleteConfirm,
                 optionVars, store, failed, now>>

BulkUpdateFieldCall(field) ==
  /\ BulkBarShown
  /\ ~BulkButtonDisabled
  /\ issued < MaxRequests
  /\ selectedTasks # {}            \* taskIds.length === 0 returns, line 275
  /\ LET req == Request("bulkUpdate", "", field, TRUE, selectedTasks)
     IN /\ net' = net \cup {req}
        /\ lastEvent' = Event("bulkUpdateField", req)
  /\ issued' = issued + 1
  /\ updating' = "bulk"
  /\ UNCHANGED <<loading, tasks, viewVars, filterVars, selectedTasks, showDeleteConfirm,
                 optionVars, store, failed, now>>

\* Faulty variant of BulkUpdateFieldReturn: the failure branch hands setTasks
\* a copy of the list, so the filter effect runs after a failure too.
BulkUpdateFieldReturn_RefreshOnError(m) ==
  /\ m \in net /\ m.kind = "bulkUpdate" /\ m.phase \in {"ok", "error"}
  /\ net' = net \ {m}
  /\ lastEvent' = Event("bulkUpdateFieldReturn", m)
  /\ updating' = Null
  /\ UNCHANGED <<loading, filterVars, showDeleteConfirm, optionVars, store, issued, failed,
                 now>>
  /\ IF m.phase = "error"
       THEN /\ UNCHANGED <<tasks, selectedTasks>>
            /\ RunFilterEffect
       ELSE /\ tasks' = PatchSelected(tasks, m.ids, m.field, m.value)
            /\ selectedTasks' = {}
            /\ RunFilterEffect

BulkUpdateFieldReturn(m) ==
  /\ m \in net /\ m.kind = "bulkUpdate" /\ m.phase \in {"ok", "error"}
  /\ net' = net \ {m}
  /\ lastEvent' = Event("bulkUpdateFieldReturn", m)
  /\ updating' = Null
  /\ UNCHANGED <<loading, filterVars, showDeleteConfirm, optionVars, store, issued, failed,
                 now>>
  /\ IF m.phase = "error"
       THEN UNCHANGED <<tasks, viewVars, selectedTasks>>
       ELSE /\ tasks' = PatchSelected(tasks, m.ids, m.field, m.value)
            /\ selectedTasks' = {}
            /\ RunFilterEffect

(***************************************************************************)
(* The delete prompt (lines 798-829) and bulkDelete (lines 297-315).       *)
(***************************************************************************)
\* Faulty variant of ClickDelete: the Delete button calls bulkDelete itself.
ClickDelete_DeletesAtOnce ==
  /\ BulkBarShown
  /\ ~showDeleteConfirm
  /\ ~BulkButtonDisabled
  /\ issued < MaxRequests
  /\ LET req == Request("bulkDelete", "", "", FALSE, selectedTasks)
     IN /\ net' = net \cup {req}
        /\ lastEvent' = Event("clickDelete", req)
  /\ issued' = issued + 1
  /\ updating' = "bulk"
  /\ UNCHANGED <<loading, tasks, viewVars, filterVars, selectedTasks, showDeleteConfirm,
                 optionVars, store, failed, now>>

ClickDelete ==
  /\ BulkBarShown
  /\ ~showDeleteConfirm
  /\ ~BulkButtonDisabled
  /\ showDeleteConfirm' = TRUE
  /\ lastEvent' = UserEvent("clickDelete")
  /\ UNCHANGED <<loading, tasks, viewVars, updating, filterVars, selectedTasks,
                 optionVars, netVars, now>>

ClickCancel ==
  /\ BulkBarShown
  /\ showDeleteConfirm
  /\ showDeleteConfirm' = FALSE
  /\ lastEvent' = UserEvent("clickCancel")
  /\ UNCHANGED <<loading, tasks, viewVars, updating, filterVars, selectedTasks,
                 optionVars, netVars, now>>

BulkDeleteCall ==
  /\ BulkBarShown
  /\ showDeleteConfirm
  /\ ~BulkButtonDisabled
  /\ issued < MaxRequests
  /\ selectedTasks # {}            \* taskIds.length === 0 returns, line 299
  /\ LET req == Request("bulkDelete", "", "", FALSE, selectedTasks)
     IN /\ net' = net \cup {req}
        /\ lastEvent' = Event("bulkDelete", req)
  /\ issued' = issued + 1
  /\ updating' = "bulk"
  /\ UNCHANGED <<loading, tasks, viewVars, filterVars, selectedTasks, showDeleteConfirm,
                 optionVars, store, failed, now>>

\* Faulty variant of BulkDeleteReturn: the selection is cleared after the
\* if/else, on failure too.
BulkDeleteReturn_ClearsOnError(m) ==
  /\ m \in net /\ m.kind = "bulkDelete" /\ m.phase \in {"ok", "error"}
  /\ net' = net \ {m}
  /\ lastEvent' = Event("bulkDeleteReturn", m)
  /\ updating' = Null
  /\ showDeleteConfirm' = FALSE
  /\ selectedTasks' = {}
  /\ UNCHANGED <<loading, filterVars, optionVars, store, issued, failed, now>>
  /\ IF m.phase = "error"
       THEN UNCHANGED <<tasks, viewVars>>
       ELSE /\ tasks' = RemoveSelected(tasks, m.ids)
            /\ RunFilterEffect

BulkDeleteReturn(m) ==
  /\ m \in net /\ m.kind = "bulkDelete" /\ m.phase \in {"ok", "error"}
  /\ net' = net \ {m}
  /\ lastEvent' = Event("bulkDeleteReturn", m)
  /\ updating' = Null
  /\ showDeleteConfirm' = FALSE
  /\ UNCHANGED <<loading, filterVars, optionVars, store, issued, failed, now>>
  /\ IF m.phase = "error"
       THEN UNCHANGED <<tasks, viewVars, selectedTasks>>
       ELSE /\ tasks' = RemoveSelected(tasks, m.ids)
            /\ selectedTasks' = {}
            /\ RunFilterEffect

(***************************************************************************)
(* Selection handlers (lines 318-349) and Clear Selection (line 834).      *)
(***************************************************************************)
ToggleOne(prev, taskId) ==
  IF taskId \in prev THEN prev \ {taskId} ELSE prev \cup {taskId}

toggleTaskSelection(taskId) ==
  /\ Rendered(taskId)
  /\ selectedTasks' = ToggleOne(selectedTasks, taskId)
  /\ lastEvent' = UserEvent("toggleTaskSelection")
  /\ UNCHANGED <<loading, tasks, viewVars, updating, filterVars, showDeleteConfirm,
                 optionVars, netVars, now>>

\* Faulty variants of ToggleAll: one never deselects, one deselects everything.
ToggleAll_AlwaysAdds(prev, pageIds) == prev \cup pageIds
ToggleAll_DropsAll(prev, pageIds) ==
  IF \A id \in pageIds : id \in prev THEN {} ELSE prev \cup pageIds

ToggleAll(prev, pageIds) ==
  LET allCurrentPageSelected == \A id \in pageIds : id \in prev
  IN IF allCurrentPageSelected THEN prev \ pageIds ELSE prev \cup pageIds

toggleSelectAll ==
  /\ ~loading
  /\ selectedTasks' = ToggleAll(selectedTasks, currentPageIds)
  /\ lastEvent' = UserEvent("toggleSelectAll")
  /\ UNCHANGED <<loading, tasks, viewVars, updating, filterVars, showDeleteConfirm,
                 optionVars, netVars, now>>

ClearSelection ==
  /\ BulkBarShown
  /\ selectedTasks' = {}
  /\ lastEvent' = UserEvent("clearSelection")
  /\ UNCHANGED <<loading, tasks, viewVars, updating, filterVars, showDeleteConfirm,
                 optionVars, netVars, now>>

(***************************************************************************)
(* Pagination controls (lines 378-380 and 707-772).                        *)
(***************************************************************************)
\* Faulty variant of ClampPage: the lower bound Math.max(1, ...) left out.
ClampPage_NoFloor(page, pages) == Min(page, pages)

ClampPage(page, pages) == Max(1, Min(page, pages))

goToPage(page) ==
  /\ currentPage' = ClampPage(page, totalPages)
  /\ UNCHANGED <<loading, tasks, filteredTasks, effectClock, updating, filterVars,
                 selectedTasks, showDeleteConfirm, optionVars, netVars, now>>

PaginationShown == ~loading /\ totalPages > 1

ClickPrevious ==
  /\ PaginationShown
  /\ currentPage # 1
  /\ lastEvent' = UserEvent("goToPage")
  /\ goToPage(currentPage - 1)

ClickNext ==
  /\ PaginationShown
  /\ currentPage # totalPages
  /\ lastEvent' = UserEvent("goToPage")
  /\ goToPage(currentPage + 1)

ClickPageNumber(page) ==
  /\ PaginationShown
  /\ page \in 1..totalPages
  /\ \/ page = 1
     \/ page = totalPages
     \/ (page - currentPage <= 1 /\ currentPage - page <= 1)
  /\ lastEvent' = UserEvent("goToPage")
  /\ goToPage(page)

(***************************************************************************)
(* The filter controls (lines 394-560).  A setter called with the value    *)
(* the state already holds changes nothing and runs no effect.             *)
(***************************************************************************)
\* Midnights the calendar can hand over: 15 February, 1 March, 5 March.
CustomRanges ==
  {NoDateRange,
   [from |-> <<59 * 24>>, to |-> <<>>],
   [from |-> <<45 * 24>>, to |-> <<63 * 24>>]}

setStatFilter(value) ==
  /\ ~loading
  /\ value \in StatFilters /\ value # statFilter
  /\ statFilter' = value
  /\ lastEvent' = UserEvent("setStatFilter")
  /\ UNCHANGED <<loading, tasks, updating, assistantFilter, clientFilter, bohFohFilter,
                 searchQuery, datePreset, dateRange, selectedTasks, showDeleteConfirm,
                 optionVars, netVars, now>>
  /\ RunFilterEffect

setSearchQuery(value) ==
  /\ ~loading
  /\ value \in SearchQueries /\ value # searchQuery
  /\ searchQuery' = value
  /\ lastEvent' = UserEvent("setSearchQuery")
  /\ UNCHANGED <<loading, tasks, updating, assistantFilter, clientFilter, bohFohFilter,
                 statFilter, datePreset, dateRange, selectedTasks, showDeleteConfirm,
                 optionVars, netVars, now>>
  /\ RunFilterEffect

setAssistantFilter(value) ==
  /\ ~loading
  /\ value \in {"all"} \cup Range(assistants) /\ value # assistantFilter
  /\ assistantFilter' = value
  /\ lastEvent' = UserEvent("setAssistantFilter")
  /\ UNCHANGED <<loading, tasks, updating, clientFilter, bohFohFilter, searchQuery,
                 statFilter, datePreset, dateRange, selectedTasks, showDeleteConfirm,
                 optionVars, netVars, now>>
  /\ RunFilterEffect

setClientFilter(value) ==
  /\ ~loading
  /\ value \in {"all"} \cup Range(clients) /\ value # clientFilter
  /\ clientFilter' = value
  /\ lastEvent' = UserEvent("setClientFilter")
  /\ UNCHANGED <<loading, tasks, updating, assistantFilter, bohFohFilter, searchQuery,
                 statFilter, datePreset, dateRange, selectedTasks, showDeleteConfirm,
                 optionVars, netVars, now>>
  /\ RunFilterEffect

setBohFohFilter(value) ==
  /\ ~loading
  /\ value \in StatusFilters /\ value # bohFohFilter
  /\ bohFohFilter' = value
  /\ lastEvent' = UserEvent("setBohFohFilter")
  /\ UNCHANGED <<loading, tasks, updating, assistantFilter, clientFilter, searchQuery,
                 statFilter, datePreset, dateRange, selectedTasks, showDeleteConfirm,
                 optionVars, netVars, now>>
  /\ RunFilterEffect

setDatePreset(value) ==
  /\ ~loading
  /\ value \in DatePresets /\ value # datePreset
  /\ datePreset' = value
  /\ lastEvent' = UserEvent("setDatePreset")
  /\ UNCHANGED <<loading, tasks, updating, assistantFilter, clientFilter, bohFohFilter,
                 searchQuery, statFilter, dateRange, selectedTasks, showDeleteConfirm,
                 optionVars, netVars, now>>
  /\ RunFilterEffect

\* The calendar is rendered for the custom preset only (line 524); every
\* selection hands over a new object, undefined excepted.
setDateRange(value) ==
  /\ ~loading
  /\ datePreset = "custom"
  /\ value \in CustomRanges
  /\ ~(value = NoDateRange /\ dateRange = NoDateRange)
  /\ dateRange' = value
  /\ lastEvent' = UserEvent("setDateRange")
  /\ UNCHANGED <<loading, tasks, updating, assistantFilter, clientFilter, bohFohFilter,
                 searchQuery, statFilter, datePreset, selectedTasks, showDeleteConfirm,
                 optionVars, netVars, now>>
  /\ RunFilterEffect

(***************************************************************************)
(* The environment: the record store answering a request, and the clock.   *)
(***************************************************************************)
StoreUpdate(rows, ids, field, value) ==
  {IF r.id \in ids THEN SetField(r, field, value) ELSE r : r \in rows}
StoreDelete(rows, ids) == {r \in rows : r.id \notin ids}

StoreResult(rows, m) ==
  CASE m.kind = "update"     -> StoreUpdate(rows, {m.taskId}, m.field, m.value)
    [] m.kind = "bulkUpdate" -> StoreUpdate(rows, m.ids, m.field, m.value)
    [] m.kind = "bulkDelete" -> StoreDelete(rows, m.ids)

StoreApply(m) ==
  /\ m \in net /\ m.phase = "sent"
  /\ store' = StoreResult(store, m)
  /\ net' = (net \ {m}) \cup {[m EXCEPT !.phase = "ok"]}
  /\ lastEvent' = Event("storeApply", m)
  /\ UNCHANGED <<loading, tasks, viewVars, updating, filterVars, selectedTasks,
                 showDeleteConfirm, optionVars, issued, failed, now>>

StoreFail(m) ==
  /\ m \in net /\ m.phase = "sent"
  /\ net' = (net \ {m}) \cup {[m EXCEPT !.phase = "error"]}
  /\ failed' = TRUE
  /\ lastEvent' = Event("storeFail", m)
  /\ UNCHANGED <<loading, tasks, viewVars, updating, filterVars, selectedTasks,
                 showDeleteConfirm, optionVars, store, issued, now>>

Tick ==
  /\ now < InitialClock + 2 * MaxTicks
  /\ now' = now + 2
  /\ lastEvent' = UserEvent("tick")
  /\ UNCHANGED <<loading, tasks, viewVars, updating, filterVars, selectedTasks,
                 showDeleteConfirm, optionVars, netVars>>

(***************************************************************************)
(* Specifications.                                                         *)
(*   Spec        the mutation protocol: switches, bulk actions, selection, *)
(*               pagination and the stat tiles, over one fetched table.    *)
(*   SpecFilter  every filter axis and the clock, over tables in which     *)
(*               each record takes each pair of flags; no mutation.        *)
(*   SpecSelect  the selection against the view: every filter axis (two or *)
(*               three values each), pagination, the selection handlers    *)
(*               and the clicks that issue a bulk request; no response.    *)
(***************************************************************************)
Next ==
  \/ FetchTasksOk
  \/ FetchTasksError
  \/ \E id \in Ids, field \in Fields : UpdateTaskFieldCall(id, field)
  \/ \E m \in net : UpdateTaskFieldReturn(m)
  \/ \E field \in Fields : BulkUpdateFieldCall(field)
  \/ \E m \in net : BulkUpdateFieldReturn(m)
  \/ ClickDelete
  \/ ClickCancel
  \/ BulkDeleteCall
  \/ \E m \in net : BulkDeleteReturn(m)
  \/ \E id \in Ids : toggleTaskSelection(id)
  \/ toggleSelectAll
  \/ ClearSelection
  \/ ClickPrevious
  \/ ClickNext
  \/ \E page \in 1..NumTasks : ClickPageNumber(page)
  \/ \E value \in StatFilters : setStatFilter(value)
  \/ \E m \in net : StoreApply(m)
  \/ \E m \in net : StoreFail(m)

Spec == Init /\ [][Next]_vars

InitFilter == InitUI /\ store \in {Dataset(k) : k \in 0..1}

NextFilter ==
  \/ FetchTasksOk
  \/ FetchTasksError
  \/ \E value \in StatFilters : setStatFilter(value)
  \/ \E value \in SearchQueries : setSearchQuery(value)
  \/ \E value \in {AssistantOf(i) : i \in 1..NumTasks} \cup {"all"} : setAssistantFilter(value)
  \/ \E value \in {ClientOf(i) : i \in 1..NumTasks} \cup {"all"} : setClientFilter(value)
  \/ \E value \in StatusFilters : setBohFohFilter(value)
  \/ \E value \in DatePresets : setDatePreset(value)
  \/ \E value \in CustomRanges : setDateRange(value)
  \/ ClickPrevious
  \/ ClickNext
  \/ \E page \in 1..NumTasks : ClickPageNumber(page)
  \/ Tick

SpecFilter == InitFilter /\ [][NextFilter]_vars

NextSelect ==
  \/ FetchTasksOk
  \/ \E value \in {"all", "unclassified"} : setStatFilter(value)
  \/ \E value \in {"", "Hotel"} : setSearchQuery(value)
  \/ \E value \in {"all", "Alice"} : setAssistantFilter(value)
  \/ \E value \in {"all", "Zen"} : setClientFilter(value)
  \/ \E value \in {"all", "foh"} : setBohFohFilter(value)
  \/ \E value \in {"all", "7days", "custom"} : setDatePreset(value)
  \/ \E value \in CustomRanges : setDateRange(value)
  \/ ClickPrevious
  \/ ClickNext
  \/ \E page \in 1..NumTasks : ClickPageNumber(page)
  \/ \E id \in Ids : toggleTaskSelection(id)
  \/ toggleSelectAll
  \/ ClearSelection
  \/ \E field \in Fields : BulkUpdateFieldCall(field)
  \/ ClickDelete
  \/ ClickCancel
  \/ BulkDeleteCall

SpecSelect == Init /\ [][NextSelect]_vars

(***************************************************************************)
(* Vocabulary of the properties.                                           *)
(***************************************************************************)
\* a is a subsequence of b: a's elements occur in b in the same order.
RECURSIVE IsSubsequence(_, _)
IsSubsequence(a, b) ==
  IF Len(a) = 0 THEN TRUE
  ELSE IF Len(b) = 0 THEN FALSE
  ELSE IF a[1] = b[1] THEN IsSubsequence(Tail(a), Tail(b))
  ELSE IsSubsequence(a, Tail(b))

ReturnOps == {"updateTaskFieldReturn", "bulkUpdateFieldReturn", "bulkDeleteReturn"}
OtherField(field) == IF field = "boh" THEN "foh" ELSE "boh"

(***************************************************************************)
(* C1.  At most one mutation request (single update, bulk update or bulk   *)
(* delete) is outstanding at any time.                                     *)
(* Stated as the claim has it; the component does not keep it: the marker  *)
(* `updating` holds one value, and a switch is disabled only when the      *)
(* marker names its own row or "bulk", so a second row's switch issues a   *)
(* second request while the first has not returned.                        *)
(***************************************************************************)
C1_AtMostOneOutstanding == Cardinality(net) <= 1

(***************************************************************************)
(* C2.  While a request is outstanding the controls that could issue       *)
(* another mutation of the records it affects stay disabled until its own  *)
(* response has been processed: for a single update the switches of that   *)
(* record, for a bulk request the bulk buttons and every switch.           *)
(* Stated as the claim has it; the component does not keep it: a later     *)
(* click overwrites the marker and the response of any request clears it.  *)
(***************************************************************************)
C2_ControlsDisabledWhileOutstanding ==
  \A m \in net :
    /\ m.kind = "update" => SwitchDisabled(m.taskId)
    /\ m.kind \in {"bulkUpdate", "bulkDelete"} =>
         /\ BulkButtonDisabled
         /\ \A id \in Ids : SwitchDisabled(id)

(***************************************************************************)
(* C3.  toggleSelectAll is self-inverse: applied twice with no other state *)
(* change, it yields a selection whose restriction to the ids of the       *)
(* current page equals the original selection's restriction to that page.  *)
(* C3_SelfInverse states this for every selection and page the component   *)
(* reaches; it fails on a page of which some but not all ids are selected  *)
(* (the first toggle selects the rest, the second deselects the page).     *)
(* C3_SelfInverseOnUniformPage is the statement that holds: two toggles    *)
(* restore the page's selection when the page's ids were all selected or   *)
(* all unselected, and otherwise leave no id of the page selected.         *)
(***************************************************************************)
ToggledTwice == ToggleAll(ToggleAll(selectedTasks, currentPageIds), currentPageIds)
UniformPage ==
  \/ currentPageIds \subseteq selectedTasks
  \/ currentPageIds \cap selectedTasks = {}

C3_SelfInverse ==
  ~loading => ToggledTwice \cap currentPageIds = selectedTasks \cap currentPageIds

C3_SelfInverseOnUniformPage ==
  ~loading =>
    IF UniformPage
      THEN ToggledTwice \cap currentPageIds = selectedTasks \cap currentPageIds
      ELSE ToggledTwice \cap currentPageIds = {}

\* A toggle has just selected a whole page of several rows.
C3_Witness ==
  /\ lastEvent.op = "toggleSelectAll"
  /\ Cardinality(currentPageIds) > 1
  /\ currentPageIds \subseteq selectedTasks

(***************************************************************************)
(* C4.  toggleSelectAll changes the selection on the current page only: if *)
(* every id of the page is selected it removes exactly those ids,          *)
(* otherwise it adds all of them; membership of every id off the page is   *)
(* unchanged, and so are the task list, the filters and the current page.  *)
(***************************************************************************)
C4_SelectAllFrame ==
  [][lastEvent'.op = "toggleSelectAll" =>
       /\ IF \A id \in currentPageIds : id \in selectedTasks
            THEN selectedTasks' = selectedTasks \ currentPageIds
            ELSE selectedTasks' = selectedTasks \cup currentPageIds
       /\ \A id \in Ids \ currentPageIds : (id \in selectedTasks') <=> (id \in selectedTasks)
       /\ tasks' = tasks
       /\ filteredTasks' = filteredTasks
       /\ filterVars' = filterVars
       /\ currentPage' = currentPage]_vars

\* A toggle has just deselected the second page while an id of the first
\* page stays selected.
C4_Witness ==
  /\ lastEvent.op = "toggleSelectAll"
  /\ currentPage > 1
  /\ currentPageIds # {}
  /\ currentPageIds \cap selectedTasks = {}
  /\ selectedTasks # {}

(***************************************************************************)
(* C5.  When a mutation request fails, local state is left unmodified      *)
(* apart from the in-flight marker, which is cleared: the task list, the   *)
(* filtered view, the selection and the delete prompt are as they were.    *)
(* C5_FailureLeavesStateUnmodified states this; it fails for the prompt,   *)
(* which bulkDelete disarms after its if/else, on failure too (line 314).  *)
(* C5_FailureKeepsDataAndSelection is the statement that holds: a failure  *)
(* leaves the task list, the filtered view and the selection as they were  *)
(* and clears the marker; the prompt is left as it was by a failed single  *)
(* or bulk update and is disarmed by a failed bulk delete.                 *)
(***************************************************************************)
FailureProcessed == lastEvent'.op \in ReturnOps /\ lastEvent'.msg.phase = "error"

C5_FailureLeavesStateUnmodified ==
  [][FailureProcessed =>
       /\ tasks' = tasks
       /\ filteredTasks' = filteredTasks
       /\ selectedTasks' = selectedTasks
       /\ showDeleteConfirm' = showDeleteConfirm
       /\ updating' = Null]_vars

C5_FailureKeepsDataAndSelection ==
  [][FailureProcessed =>
       /\ tasks' = tasks
       /\ filteredTasks' = filteredTasks
       /\ selectedTasks' = selectedTasks
       /\ showDeleteConfirm' = IF lastEvent'.op = "bulkDeleteReturn" THEN FALSE
                               ELSE showDeleteConfirm
       /\ updating' = Null]_vars

\* A failed bulk delete has just been processed: its ids are still selected.
C5_Witness ==
  /\ lastEvent.op = "bulkDeleteReturn"
  /\ lastEvent.msg.phase = "error"
  /\ selectedTasks = lastEvent.msg.ids
  /\ lastEvent.msg.ids \subseteq IdsOf(tasks)
  /\ ~showDeleteConfirm

(***************************************************************************)
(* C6.  When a bulk set-flag request succeeds, every local record whose id *)
(* was sent has the given flag true, the other flag of those records and   *)
(* both flags of every other record are unchanged, no record is added or   *)
(* removed, and the selection is empty; the request's value is true.       *)
(***************************************************************************)
C6_BulkUpdateSuccess ==
  [][(lastEvent'.op = "bulkUpdateFieldReturn" /\ lastEvent'.msg.phase = "ok") =>
       LET m == lastEvent'.msg
       IN /\ m.value = TRUE
          /\ Len(tasks') = Len(tasks)
          /\ \A i \in 1..Len(tasks) :
               /\ tasks'[i].id = tasks[i].id
               /\ IF tasks[i].id \in m.ids
                    THEN /\ tasks'[i][m.field] = TRUE
                         /\ tasks'[i][OtherField(m.field)] = tasks[i][OtherField(m.field)]
                    ELSE /\ tasks'[i].boh = tasks[i].boh
                         /\ tasks'[i].foh = tasks[i].foh
          /\ selectedTasks' = {}]_vars

\* A successful bulk set-flag has just been processed; a record it did not
\* name still has the flag false, a record it named has it true.
C6_Witness ==
  /\ lastEvent.op = "bulkUpdateFieldReturn"
  /\ lastEvent.msg.phase = "ok"
  /\ \E i \in 1..Len(tasks) :
       tasks[i].id \notin lastEvent.msg.ids /\ tasks[i][lastEvent.msg.field] = FALSE
  /\ \E i \in 1..Len(tasks) :
       tasks[i].id \in lastEvent.msg.ids /\ tasks[i][lastEvent.msg.field] = TRUE
  /\ selectedTasks = {}

(***************************************************************************)
(* C7.  Bulk delete is a two-step protocol: a delete request is issued     *)
(* only by a Confirm click made while the prompt is armed; the prompt is   *)
(* armed only by a Delete click, which issues no request; a Cancel click   *)
(* disarms the prompt, leaves the selection and the task list untouched    *)
(* and issues no request.                                                  *)
(***************************************************************************)
DeleteRequestIssued == \E m \in net' \ net : m.kind = "bulkDelete" /\ m.phase = "sent"

C7_TwoStepDelete ==
  [][/\ DeleteRequestIssued => (showDeleteConfirm /\ lastEvent'.op = "bulkDelete")
     /\ (~showDeleteConfirm /\ showDeleteConfirm') =>
          (lastEvent'.op = "clickDelete" /\ net' = net)
     /\ lastEvent'.op = "clickCancel" =>
          /\ ~showDeleteConfirm'
          /\ selectedTasks' = selectedTasks
          /\ tasks' = tasks
          /\ net' = net /\ issued' = issued]_vars

\* Confirm has just issued a delete request for the selection.
C7_Witness ==
  /\ lastEvent.op = "bulkDelete"
  /\ lastEvent.msg \in net
  /\ lastEvent.msg.ids = selectedTasks
  /\ showDeleteConfirm

(***************************************************************************)
(* C8.  When a bulk delete request succeeds, the local list loses exactly  *)
(* the records whose ids were sent, every other record stays, unchanged    *)
(* and in the same relative order, the selection becomes empty and the     *)
(* prompt is disarmed; and once the list has loaded no step adds an id to  *)
(* it, so a removed record never reappears.                                *)
(***************************************************************************)
C8_BulkDeleteSuccess ==
  [][/\ (lastEvent'.op = "bulkDeleteReturn" /\ lastEvent'.msg.phase = "ok") =>
          /\ IdsOf(tasks') = IdsOf(tasks) \ lastEvent'.msg.ids
          /\ Len(tasks') = Cardinality(IdsOf(tasks'))
          /\ IsSubsequence(tasks', tasks)
          /\ selectedTasks' = {}
          /\ ~showDeleteConfirm'
     /\ ~loading => IdsOf(tasks') \subseteq IdsOf(tasks)]_vars

\* A successful bulk delete has just removed some but not all records.
C8_Witness ==
  /\ lastEvent.op = "bulkDeleteReturn"
  /\ lastEvent.msg.phase = "ok"
  /\ tasks # <<>>
  /\ IdsOf(tasks) \cap lastEvent.msg.ids = {}
  /\ Len(tasks) < NumTasks

SatisfiesSearch(t) ==
  \/ trim(searchQuery) = ""
  \/ includes(LowerCase(t.task_name), LowerCase(searchQuery))
  \/ includes(LowerCase(t.task_description), LowerCase(searchQuery))
SatisfiesAssistant(t) == assistantFilter = "all" \/ t.assistant = assistantFilter
SatisfiesClient(t) == clientFilter = "all" \/ t.client = clientFilter
SatisfiesStatus(t) ==
  /\ bohFohFilter = "boh" => t.boh
  /\ bohFohFilter = "foh" => t.foh
  /\ bohFohFilter = "both" => (t.boh /\ t.foh)
  /\ bohFohFilter = "none" => (~t.boh /\ ~t.foh)
SatisfiesDate(t) ==
  LET range == IF datePreset = "custom" THEN dateRange
               ELSE getDateRangeFromPreset(datePreset, effectClock)
  IN range.from # <<>> =>
       /\ range.from[1] <= t.created_at
       /\ t.created_at <= (IF range.to # <<>> THEN range.to[1] ELSE effectClock)
SatisfiesStat(t) ==
  /\ statFilter = "boh" => t.boh
  /\ statFilter = "foh" => t.foh
  /\ statFilter = "unclassified" => (~t.boh /\ ~t.foh)
SatisfiesOtherAxes(t) ==
  SatisfiesSearch(t) /\ SatisfiesAssistant(t) /\ SatisfiesClient(t) /\ SatisfiesDate(t)

C10_AxesCombineWithAnd ==
  /\ filteredTasks =
       SelectSeq(tasks, LAMBDA t : SatisfiesOtherAxes(t) /\ SatisfiesStatus(t) /\ SatisfiesStat(t))
  /\ (bohFohFilter = "boh" /\ statFilter = "foh") =>
       filteredTasks = SelectSeq(tasks, LAMBDA t : SatisfiesOtherAxes(t) /\ t.boh /\ t.foh)
  /\ bohFohFilter = "both" => \A t \in Range(filteredTasks) : t.boh /\ t.foh
  /\ (bohFohFilter = "none" /\ statFilter \in {"boh", "foh"}) => filteredTasks = <<>>

\* Status boh, tile foh and a search are active together, and the view
\* holds some but not all of the records with both flags true.
C10_Witness ==
  /\ bohFohFilter = "boh" /\ statFilter = "foh" /\ trim(searchQuery) # ""
  /\ filteredTasks # <<>>
  /\ \E t \in Range(tasks) : t.boh /\ ~t.foh
  /\ \E t \in Range(tasks) : t.foh /\ ~t.boh

(***************************************************************************)
(* C11.  Changing any filter axis (search query, assistant, client,        *)
(* status, date preset, custom date range, stat tile) to a different value *)
(* resets currentPage to 1, from any current page.                         *)
(***************************************************************************)
FilterOps == {"setSearchQuery", "setAssistantFilter", "setClientFilter", "setBohFohFilter",
              "setDatePreset", "setDateRange", "setStatFilter"}

C11_FilterChangeResetsPage ==
  [][/\ filterVars' # filterVars => currentPage' = 1
     /\ lastEvent'.op \in FilterOps => currentPage' = 1]_vars

\* A filter axis has just changed while page 2 was shown, and the view
\* still spans more than one page.
C11_Witness ==
  /\ lastEvent.op \in FilterOps
  /\ lastEvent.page > 1
  /\ currentPage = 1
  /\ totalPages > 1

(***************************************************************************)
(* C12.  In every reachable state 1 <= currentPage <= max(1, ceil(         *)
(* filteredCount / page size)): goToPage clamps any requested page into    *)
(* that range, giving 1 when the filtered view is empty, and no filter     *)
(* change, toggle, bulk update or bulk delete that shrinks the filtered    *)
(* view leaves currentPage pointing past the last page.                    *)
(***************************************************************************)
\* The pages goToPage is asked for here: below 1, in range, past the end.
PageRequests == (0 - 1)..(NumTasks + 1)
LastPage == Max(1, totalPages)

C12_PageInRange ==
  /\ 1 <= currentPage /\ currentPage <= LastPage
  /\ \A page \in PageRequests :
       /\ 1 <= ClampPage(page, totalPages) /\ ClampPage(page, totalPages) <= LastPage
       /\ page \in 1..LastPage => ClampPage(page, totalPages) = page
       /\ filteredTasks = <<>> => ClampPage(page, totalPages) = 1

\* A successful bulk delete, processed while page 2 was shown, has just
\* shrunk the view to a single page.
C12_Witness ==
  /\ lastEvent.op = "bulkDeleteReturn"
  /\ lastEvent.msg.phase = "ok"
  /\ lastEvent.page = 2
  /\ filteredTasks # <<>>
  /\ totalPages = 1
  /\ currentPage = 1

(***************************************************************************)
(* C13.  In every reachable state and for every record, the suggestion map *)
(* never holds a suggestion for a flag that is already true on that record *)
(* (no "boh" suggestion when boh is true, no "foh" suggestion when foh is  *)
(* true), also after toggles and bulk updates have changed the flags.  The *)
(* map is a value derived from the task list: computing it assigns nothing.*)
(***************************************************************************)
C13_NoSuggestionForSetFlag ==
  \A t \in Range(tasks) :
    t.id \in DOMAIN categorySuggestions =>
      /\ categorySuggestions[t.id] \in {"boh", "foh"}
      /\ categorySuggestions[t.id] = "boh" => ~t.boh
      /\ categorySuggestions[t.id] = "foh" => ~t.foh

\* A successful toggle or bulk update has just set the flag that a record's
\* text suggests, so the record has lost its entry, while another record
\* still has one.
C13_Witness ==
  /\ lastEvent.op \in {"updateTaskFieldReturn", "bulkUpdateFieldReturn"}
  /\ lastEvent.msg.phase = "ok"
  /\ lastEvent.msg.value = TRUE
  /\ \E t \in Range(tasks) :
       /\ t.id \in lastEvent.msg.ids \cup {lastEvent.msg.taskId}
       /\ SuggestionFor(t) = lastEvent.msg.field
       /\ t[lastEvent.msg.field]
       /\ t.id \notin DOMAIN categorySuggestions
  /\ DOMAIN categorySuggestions # {}

(***************************************************************************)
(* C14.  Changing a filter axis or the current page leaves the selection   *)
(* set unchanged, so the selection may hold ids that are not in the        *)
(* filtered view or on the current page, and a bulk update or bulk delete  *)
(* request carries every id of the selection set, visible or not.          *)
(***************************************************************************)
C14_SelectionOutlivesView ==
  [][/\ lastEvent'.op \in FilterOps \cup {"goToPage"} => selectedTasks' = selectedTasks
     /\ filterVars' # filterVars => selectedTasks' = selectedTasks
     /\ lastEvent'.op \in {"bulkUpdateField", "bulkDelete"} =>
          /\ lastEvent'.msg.ids = selectedTasks
          /\ lastEvent'.msg \in net' \ net]_vars

\* Confirm has just issued a delete request for the whole selection, of
\* which one id is hidden by the search and another is on the current page.
C14_Witness ==
  /\ lastEvent.op = "bulkDelete"
  /\ trim(searchQuery) # ""
  /\ \E id \in lastEvent.msg.ids : id \notin IdsOf(filteredTasks)
  /\ \E id \in lastEvent.msg.ids : id \in currentPageIds
  /\ lastEvent.msg.ids = selectedTasks

(***************************************************************************)
(* C15.  The delete-confirmation prompt is never armed while the selection *)
(* set is empty: every way the selection becomes empty (Clear Selection,   *)
(* deselecting the last row, a successful bulk set-flag) also disarms the  *)
(* prompt, so a selection made afterwards cannot be deleted by a single    *)
(* Confirm click without a fresh Delete click.                             *)
(* Stated as the claim has it; the component does not keep it: only        *)
(* Cancel and the end of bulkDelete disarm the prompt (lines 314, 813), so *)
(* the prompt outlives a selection emptied in any of the three ways.       *)
(***************************************************************************)
C15_PromptArmedOnlyWithSelection == showDeleteConfirm => selectedTasks # {}

(***************************************************************************)
(* C16.  When a bulk set-flag or bulk delete request succeeds, every id    *)
(* that the success handler removes from the selection set was one of the  *)
(* ids sent in that request: ids selected while the request was            *)
(* outstanding are not dropped without having been updated or deleted.     *)
(* Stated as the claim has it; the component does not keep it: the success *)
(* branch patches with the selection its closure captured at the click but *)
(* replaces the selection by an empty set (lines 291, 311).                *)
(***************************************************************************)
C16_SuccessDropsOnlySentIds ==
  [][(/\ lastEvent'.op \in {"bulkUpdateFieldReturn", "bulkDeleteReturn"}
      /\ lastEvent'.msg.phase = "ok") =>
       (selectedTasks \ selectedTasks') \subseteq lastEvent'.msg.ids]_vars

(***************************************************************************)
(* C17.  Local copy and store converge: in any state where no mutation     *)
(* request is outstanding and every request issued so far succeeded, each  *)
(* local record's boh and foh equal the values the store holds for that id *)
(* and the local id set equals the store's, for every order in which       *)
(* requests reach the store and responses reach the UI.                    *)
(* Stated as the claim has it, for the loaded list; the component does not *)
(* keep it: two requests can be outstanding together, and when the store   *)
(* applies them in one order and their responses are processed in the      *)
(* other, the local patches end on a different value than the store.       *)
(***************************************************************************)
Converged ==
  /\ IdsOf(tasks) = {r.id : r \in store}
  /\ \A t \in Range(tasks) : \A r \in store :
       r.id = t.id => (r.boh = t.boh /\ r.foh = t.foh)

C17_LocalAndStoreConverge == (~loading /\ net = {} /\ ~failed) => Converged

(***************************************************************************)
(* C18.  Every successful mutation that changes the local task list        *)
(* (single toggle, bulk set-flag, bulk delete) re-runs the filter          *)
(* recomputation and resets currentPage to 1 even though no filter axis    *)
(* changed, while a failed mutation leaves currentPage where it was.       *)
(***************************************************************************)
C18_SuccessResetsPage ==
  [][lastEvent'.op \in ReturnOps =>
       /\ filterVars' = filterVars
       /\ IF lastEvent'.msg.phase = "ok"
            THEN /\ currentPage' = 1
                 /\ effectClock' = now
                 /\ filteredTasks' =
                      ApplyFilters(tasks', searchQuery, assistantFilter, clientFilter,
                                   bohFohFilter, datePreset, dateRange, statFilter, now)
            ELSE /\ currentPage' = currentPage
                 /\ filteredTasks' = filteredTasks]_vars

\* A successful toggle has just been processed while page 2 was shown: the
\* view still spans two pages and page 1 is shown.
C18_Witness ==
  /\ lastEvent.op = "updateTaskFieldReturn"
  /\ lastEvent.msg.phase = "ok"
  /\ lastEvent.page = 2
  /\ totalPages = 2
  /\ currentPage = 1

====
